---- MODULE Spec2Model ----
(***************************************************************************)
(* Athena fashion search: the HTTP handlers of main.py, the service        *)
(* methods they call (NLU parsing, concept-image generation, refinement,   *)
(* look generation, style suggestions) and the product retrieval layer     *)
(* (query construction, warehouse query, result scoring).                  *)
(*                                                                         *)
(* Every external provider (the Gemini text and image models, the          *)
(* multimodal embedding model, the BigQuery warehouse, HTTP image          *)
(* download) is a black box: a call is issued, and it later returns one    *)
(* of its possible outcomes or raises.  Numbers that are floats in the     *)
(* code (distances, similarities, scores) are integers in units of         *)
(* 1/Scale.  An optional value (a nullable column) is a sequence of        *)
(* length at most one.                                                     *)
(***************************************************************************)
EXTENDS Integers, Sequences, FiniteSets, TLC

\* ---------------------------------------------------------------- bounds
MaxClock == 2
MaxRows == 2
Scale == 2
MaxProducts == 4
MaxGarments == 2
MaxModelSuggestions == 7
MaxStrLen == 1
MaxModelVariations == 4
MaxValues == 2
MaxTotalCount == 2
MaxModelSpecs == 2
MaxSpecs == 2
MaxServed == 1
PriceStep == 40

\* ------------------------------------------------------ program constants
MatchLimit == 10
DefaultLimit == 20
DefaultLimitPerCategory == 5
DefaultDistance == 1
DefaultSimilarity == 0
MinLookProducts == 2
MaxLookProducts == 3
MaxSuggestions == 6
VariationCount == 3
DefaultTotalCount == 200

Reqs == {1, 2}

VARIABLES use_vector_index, clock, files, req, built, table, gen, catalog

vars == <<use_vector_index, clock, files, req, built, table, gen, catalog>>
\* What request handling never touches
offline == <<built, table, gen, catalog>>

\* ---------------------------------------------------------------- helpers
None == <<>>
Some(v) == <<v>>
Max(a, b) == IF a >= b THEN a ELSE b

\* Python truth of an optional number: None and 0 are false
Truthy(v) == v # None /\ v[1] # 0

\* dict.get / Row.get: the value under the key, the default when the key is absent
Get(row, key, default) == IF key \in DOMAIN row THEN row[key] ELSE default

NoAttrs == [kind |-> "none", price_max |-> None, colors |-> <<>>, garment_types |-> <<>>]
NoImage == [kind |-> "none", image_url |-> <<"none", 0>>]
NoSql == [kind |-> "none", embedding |-> "none", filters |-> <<>>, category |-> "none",
          limit |-> 0]
NoResponse == [status |-> 0, detail |-> "", unhandled |-> FALSE, body |-> "none",
               image_url |-> <<"none", 0>>, match_description |-> <<>>]

IdleReq ==
    [entry |-> "idle", pc |-> "idle", n_products |-> 0, image_path |-> "none",
     parsed |-> NoAttrs,
     image |-> NoImage, emb |-> "none", sql |-> NoSql, rows |-> <<>>, products |-> <<>>,
     garments |-> <<>>, gi |-> 0, by_category |-> <<>>, search_mode |-> "none",
     suggestions |-> [kind |-> "none", n |-> 0], limit |-> 0,
     variations |-> [kind |-> "none", n |-> 0, listed |-> 0],
     caught |-> {}, search_raised |-> FALSE, fallback |-> FALSE,
     exc |-> "none", result |-> "none", response |-> NoResponse,
     log |-> <<>>, inflight |-> {}, served |-> 0]

\* The warehouse product table: a list of product records, of which the model keeps
\* the two columns the response requires and the two price columns.  A column can
\* hold NULL.  The catalog pipeline gives every row it inserts an identifier, a
\* name and an original price; the products are priced PriceStep apart.
ProductRecord(i) ==
    [product_id |-> Some(i), product_name |-> Some("name"),
     price_original |-> Some(PriceStep * i), price_discounted |-> None]
Catalog == [i \in 1..MaxRows |-> ProductRecord(i)]

\* The two catalog scripts have not been started
NoGen == [stage |-> "none", total_count |-> 0, ci |-> 0, all_specs |-> 0, paths |-> <<>>]
NoCatalog ==
    [stage |-> "none", total |-> 0, resume_from |-> 0, i |-> 0, pos |-> 0, step |-> "none",
     success_count |-> 0, failure_count |-> 0, log |-> <<>>, trace |-> <<>>,
     inserted |-> <<>>]

\* No query text has been asked for
NoBuilt == [stage |-> "none", attrs |-> <<>>, category |-> <<>>, text |-> <<>>]

Init ==
    /\ use_vector_index \in BOOLEAN
    /\ clock = 0
    /\ files = [n \in {} |-> 0]
    /\ req = [r \in Reqs |-> IdleReq]
    /\ built = NoBuilt
    /\ table = Catalog
    /\ gen = NoGen
    /\ catalog = NoCatalog

\* ------------------------------------------------------ exception handling
\* The except clauses of a handler of main.py, applied to an exception that reaches
\* them: create_look re-raises an HTTPException unchanged, every handler turns any
\* other exception into HTTPException(500, detail="... failed: <message>").
HandlerExceptUncaught(entry, exc) ==
    IF exc = "HTTPException400"
    THEN [NoResponse EXCEPT !.status = 400, !.detail = "message"]
    ELSE [NoResponse EXCEPT !.status = 500, !.unhandled = TRUE]

HandlerExceptNoReraise(entry, exc) ==
    [NoResponse EXCEPT !.status = 500, !.detail = "message"]

HandlerExcept(entry, exc) ==
    IF entry = "create_look" /\ exc = "HTTPException400"
    THEN [NoResponse EXCEPT !.status = 400, !.detail = "message"]
    ELSE [NoResponse EXCEPT !.status = 500, !.detail = "message"]

\* The clock of datetime.now(), in whole seconds
Tick ==
    /\ clock < MaxClock
    /\ clock' = clock + 1
    /\ UNCHANGED <<use_vector_index, files, req>>
    /\ UNCHANGED offline

\* ------------------------------------------------------------- requests
\* What a client (or, for the three search operations, a caller of the service
\* object) can ask for.  n_products is the length of CreateLookRequest.products;
\* image_path says what the image_url of the request names: "local" is /images/<f>
\* with the file present, "missing" is /images/<f> without the file, "external" is
\* any other string.
Endpoints == {"search", "search_by_image", "refine", "match_products",
              "suggest_refinements", "create_look", "health"}
Operations == {"search_products_by_text", "search_products_by_image",
               "search_products_multi_category", "generate_prompt_variations"}
ImagePaths == {"local", "missing", "external"}
UsesImagePath(entry) ==
    entry \in {"match_products", "suggest_refinements", "search_products_by_image",
               "search_products_multi_category"}

\* The first statement of each handler or operation
FirstPcNoParse(entry) ==
    CASE entry = "search" -> "gen_image"
      [] entry = "search_by_image" -> "analyze"
      [] entry = "refine" -> "refine"
      [] entry = "match_products" -> "embed"
      [] entry = "suggest_refinements" -> "suggest_load"
      [] entry = "create_look" -> "validate"
      [] entry = "health" -> "respond"
      [] entry = "search_products_by_text" -> "text_embed"
      [] entry = "search_products_by_image" -> "embed"
      [] entry = "search_products_multi_category" -> "garments"
      [] entry = "generate_prompt_variations" -> "variations"

FirstPc(entry) ==
    CASE entry = "search" -> "parse"
      [] entry = "search_by_image" -> "analyze"
      [] entry = "refine" -> "refine"
      [] entry = "match_products" -> "parse"
      [] entry = "suggest_refinements" -> "suggest_load"
      [] entry = "create_look" -> "validate"
      [] entry = "health" -> "respond"
      [] entry = "search_products_by_text" -> "text_embed"
      [] entry = "search_products_by_image" -> "embed"
      [] entry = "search_products_multi_category" -> "garments"
      [] entry = "generate_prompt_variations" -> "variations"

\* The external call made at a position of the code
CallAt(pc) ==
    CASE pc \in {"parse", "analyze", "garments", "suggest", "variations"} -> "nlu"
      [] pc \in {"gen_image", "refine", "gen_look"} -> "image_model"
      [] pc \in {"embed", "text_embed", "multi_embed"} -> "embedding"
      [] pc \in {"execute", "text_execute", "multi_execute"} -> "warehouse"
      [] pc = "load_images" -> "http_get"
      [] OTHER -> "none"

ModelAttrs ==
    {[kind |-> "model", price_max |-> None, colors |-> <<>>, garment_types |-> <<>>],
     [kind |-> "model", price_max |-> Some(50), colors |-> <<"red">>,
      garment_types |-> <<"dress">>]}
FallbackAttrs ==
    [kind |-> "fallback", price_max |-> None, colors |-> <<>>, garment_types |-> <<"dress">>]
NonDictAttrs == [NoAttrs EXCEPT !.kind = "nondict"]

\* parsed_attributes as a caller of a search operation passes them
OperationAttrs == ModelAttrs \cup {FallbackAttrs, NoAttrs}

Set(r, rec) == req' = [req EXCEPT ![r] = rec]
Logged(rq, call, event) == Append(rq.log, <<call, event>>)

Receive(r, entries) ==
    /\ req[r].pc = "idle"
    /\ \E e \in entries, n \in 0..MaxProducts, ip \in ImagePaths, a \in OperationAttrs,
          lim \in {MatchLimit, DefaultLimit} :
          /\ (e # "create_look") => n = 0
          /\ (~UsesImagePath(e)) => ip = "local"
          /\ (e \notin Operations) => (a = NoAttrs /\ lim = MatchLimit)
          /\ (e \in Operations) => a # NoAttrs
          /\ (e \in {"search_products_multi_category", "generate_prompt_variations"})
                 => lim = MatchLimit
          /\ Set(r, [IdleReq EXCEPT !.entry = e, !.pc = FirstPc(e), !.n_products = n,
                                    !.image_path = ip, !.parsed = a,
                                    !.served = req[r].served,
                                    !.limit = IF e = "search_products_multi_category"
                                              THEN DefaultLimitPerCategory
                                              ELSE lim])
    /\ UNCHANGED <<use_vector_index, clock, files>>
    /\ UNCHANGED offline

\* Calls are synchronous: a statement that calls a provider is reached only after
\* the statement before it has returned.
MayIssue(inflight) == inflight = {}

Issue(r) ==
    /\ CallAt(req[r].pc) # "none"
    /\ CallAt(req[r].pc) \notin req[r].inflight
    /\ MayIssue(req[r].inflight)
    /\ (req[r].pc \in {"embed", "multi_embed", "garments"}) => (req[r].image_path = "local")
    /\ Set(r, [req[r] EXCEPT !.inflight = @ \cup {CallAt(req[r].pc)},
                             !.log = Logged(req[r], CallAt(req[r].pc), "start")])
    /\ UNCHANGED <<use_vector_index, clock, files>>
    /\ UNCHANGED offline

\* The call returns `out`, one of its outcomes ("raise": it raised)
Returned(rq, call, out) ==
    [rq EXCEPT !.inflight = @ \ {call}, !.log = Logged(rq, call, out)]
Raise(rq, e) == [rq EXCEPT !.pc = "except", !.exc = e]

\* ------------------------------------------------- NLUService.parse_fashion_query
\* out: "dict" the model answered a JSON object, "nondict" JSON that is no object,
\* "unparsable" text json.loads rejects, "raise" the model call raised
ParseOutcomes == {"dict", "nondict", "unparsable", "raise"}
\* A variant whose except clause hands back no dictionary
ParseFashionQueryNoFallback(out, a) ==
    CASE out = "dict" -> a
      [] OTHER -> NonDictAttrs
ParseFashionQuery(out, a) ==
    CASE out = "dict" -> a
      [] out = "nondict" -> NonDictAttrs
      [] OTHER -> FallbackAttrs

\* parsed_attributes.get(...) on a value that is no dict raises AttributeError
AttrsGetRaises(parsed) == parsed.kind = "nondict"

ParseReturn(r) ==
    /\ req[r].pc = "parse"
    /\ "nlu" \in req[r].inflight
    /\ \E out \in ParseOutcomes, a \in ModelAttrs :
          LET p == ParseFashionQuery(out, a)
              rq == [Returned(req[r], "nlu", out) EXCEPT !.parsed = p]
          IN  IF req[r].entry = "search"
              THEN IF AttrsGetRaises(p)
                   THEN Set(r, Raise(rq, "Exception"))
                   ELSE Set(r, [rq EXCEPT !.pc = "gen_image"])
              ELSE Set(r, [rq EXCEPT !.pc = "embed"])
    /\ UNCHANGED <<use_vector_index, clock, files>>
    /\ UNCHANGED offline

\* --------------------------------------------- NLUService.analyze_image_for_style
AnalyzeReturn(r) ==
    /\ req[r].pc = "analyze"
    /\ "nlu" \in req[r].inflight
    /\ \E out \in ParseOutcomes, a \in ModelAttrs :
          Set(r, [Returned(req[r], "nlu", out) EXCEPT
                     !.parsed = IF out = "dict" THEN a ELSE FallbackAttrs,
                     !.pc = "gen_image"])
    /\ UNCHANGED <<use_vector_index, clock, files>>
    /\ UNCHANGED offline

\* ------------------------------------------------------ generated image files
Write(fs, name, data) ==
    [n \in DOMAIN fs \cup {name} |-> IF n = name THEN data ELSE fs[n]]

\* f"{prefix}_{datetime.now().strftime('%Y%m%d_%H%M%S')}.png"
FileName(prefix, now) == <<prefix, now>>

Placeholder == <<"placeholder", 0>>
FallbackImage == [kind |-> "fallback", image_url |-> Placeholder]
SavedImage(name) == [kind |-> "file", image_url |-> name]

\* out: "image" the response holds image data, "noimage" it holds none,
\* "raise" the model call raised
ImageOutcomes == {"image", "noimage", "raise"}

\* generate_concept_image / refine_image after generate_content: the image
\* result and the files on disk
ImageResultRaiseOnly(out, name) ==
    IF out # "raise" THEN SavedImage(name) ELSE FallbackImage
ImageResult(out, name) ==
    IF out = "image" THEN SavedImage(name) ELSE FallbackImage

ImageModelReturn(r, at, prefix) ==
    /\ req[r].pc = at
    /\ "image_model" \in req[r].inflight
    /\ \E out \in ImageOutcomes :
          LET name == FileName(prefix, clock)
              res == ImageResult(out, name)
          IN  /\ Set(r, [Returned(req[r], "image_model", out) EXCEPT
                            !.image = res, !.pc = "respond"])
              /\ files' = IF res.kind = "file" THEN Write(files, name, r) ELSE files
    /\ UNCHANGED <<use_vector_index, clock>>
    /\ UNCHANGED offline

ConceptImageReturn(r) == ImageModelReturn(r, "gen_image", "concept")
RefineImageReturn(r) == ImageModelReturn(r, "refine", "refined")

\* ------------------------------------------------ ProductSearchService: queries
\* _build_where_clauses: one condition per filter attribute that is set, in the
\* order the code appends them
BuildWhereClauses(attrs) ==
    (IF attrs.price_max # None /\ attrs.price_max # Some(0) THEN <<"price_max">> ELSE <<>>)
    \o (IF attrs.colors # <<>> THEN <<"colors">> ELSE <<>>)
    \o (IF attrs.garment_types # <<>> THEN <<"garment_types">> ELSE <<>>)

BuildVectorIndexQuery(embedding, attrs, limit) ==
    [kind |-> "VECTOR_SEARCH", embedding |-> embedding, filters |-> <<>>,
     category |-> "none", limit |-> limit]

BuildManualSimilarityQuery(embedding, attrs, limit) ==
    [kind |-> "MANUAL", embedding |-> embedding, filters |-> BuildWhereClauses(attrs),
     category |-> "none", limit |-> limit]

BuildVectorSearchQueryFiltered(use_index, embedding, attrs, limit) ==
    IF use_index /\ BuildWhereClauses(attrs) = <<>>
    THEN BuildVectorIndexQuery(embedding, attrs, limit)
    ELSE BuildManualSimilarityQuery(embedding, attrs, limit)

BuildVectorSearchQuery(use_index, embedding, attrs, limit) ==
    IF use_index
    THEN BuildVectorIndexQuery(embedding, attrs, limit)
    ELSE BuildManualSimilarityQuery(embedding, attrs, limit)

\* The manual query reads parsed_attributes with .get; the index query ignores them
BuildRaises(use_index, attrs) == ~use_index /\ AttrsGetRaises(attrs)

BuildCategorySpecificQuery(embedding, category, limit) ==
    [kind |-> "CATEGORY", embedding |-> embedding, filters |-> <<>>,
     category |-> category, limit |-> limit]

\* ---------------------------------------------------- the warehouse's answers
\* Cosine distance lies in [0, 2] and cosine similarity in [-1, 1]; a column can
\* hold NULL.
Distances == 0..(2 * Scale)
Similarities == (0 - Scale)..Scale
OptDistances == {None} \cup {Some(d) : d \in Distances}
OptSimilarities == {None} \cup {Some(x) : x \in Similarities}

\* The columns a query selects
Row(kind, i, v) ==
    IF kind = "MANUAL"
    THEN [product_id |-> table[i].product_id, gcs_uri |-> Some("gs"),
          metadata |-> Some("json"),
          similarity_score |-> v]
    ELSE [product_id |-> table[i].product_id, product_name |-> table[i].product_name,
          price_original |-> table[i].price_original,
          price_discounted |-> table[i].price_discounted,
          gcs_uri |-> Some("gs"), distance |-> v]

Min(a, b) == IF a <= b THEN a ELSE b
\* ORDER BY similarity_score DESC of the manual query: NULLs come last.  The
\* VECTOR_SEARCH queries carry no ORDER BY: their rows come in any order.
SortedDescending(kind, vs) ==
    (kind = "MANUAL") =>
        \A i \in DOMAIN vs : \A j \in DOMAIN vs :
            (i < j) => \/ vs[j] = None
                       \/ (vs[i] # None /\ vs[i][1] >= vs[j][1])
\* A variant that answers from the catalog as it was first loaded
QueryResultsCached(sql) ==
    LET vals == IF sql.kind = "MANUAL" THEN OptSimilarities ELSE OptDistances
        snapshot(i, v) ==
            IF sql.kind = "MANUAL"
            THEN [product_id |-> Catalog[i].product_id, gcs_uri |-> Some("gs"),
                  metadata |-> Some("json"), similarity_score |-> v]
            ELSE [product_id |-> Catalog[i].product_id,
                  product_name |-> Catalog[i].product_name,
                  price_original |-> Catalog[i].price_original,
                  price_discounted |-> Catalog[i].price_discounted,
                  gcs_uri |-> Some("gs"), distance |-> v]
    IN  {[i \in 1..n |-> snapshot(i, vs[i])] :
            n \in 0..Min(MaxRows, sql.limit),
            vs \in {w \in [1..MaxRows -> vals] : SortedDescending(sql.kind, w)}}
QueryResults(sql) ==
    LET vals == IF sql.kind = "MANUAL" THEN OptSimilarities ELSE OptDistances
    IN  {[i \in 1..n |-> Row(sql.kind, i, vs[i])] :
            n \in 0..Min(Min(MaxRows, sql.limit), Len(table)),
            vs \in {w \in [1..MaxRows -> vals] : SortedDescending(sql.kind, w)}}

\* --------------------------------------------------- result scoring and shaping
\* similarity_score = max(0.0, 1.0 - distance)
SimilarityFromDistanceUnclamped(distance) == Scale - distance
SimilarityFromDistance(distance) == Max(0, Scale - distance)

\* float(None) raises TypeError
FloatRaises(v) == v = None

\* search_products_by_image, search_products_multi_category: one row
ImageRowRaises(row) == FloatRaises(Get(row, "distance", Some(DefaultDistance * Scale)))
\* price = price_discounted if price_discounted else price_original, and
\* float(price) if price else 0.0
RowPrice(row) ==
    LET price_discounted == Get(row, "price_discounted", None)
        price_original == Get(row, "price_original", Some(0))
        price == IF Truthy(price_discounted) THEN price_discounted ELSE price_original
    IN  IF Truthy(price) THEN price[1] ELSE 0
FormatImageRow(row) ==
    [id |-> Get(row, "product_id", Some(0)),
     name |-> Get(row, "product_name", Some("Product")),
     price |-> RowPrice(row),
     similarity_score |->
         SimilarityFromDistance(Get(row, "distance", Some(DefaultDistance * Scale))[1])]

\* search_products_by_text: one row
TextRowRaises(row) == FloatRaises(Get(row, "similarity_score", Some(DefaultSimilarity)))
FormatTextRow(row) ==
    [id |-> Get(row, "product_id", None),
     name |-> Some("Unknown Product"),
     similarity_score |-> Get(row, "similarity_score", Some(DefaultSimilarity))[1]]

IsText(rq) == rq.entry = "search_products_by_text"
RowRaises(rq, row) == IF IsText(rq) THEN TextRowRaises(row) ELSE ImageRowRaises(row)
FormatRow(rq, row) == IF IsText(rq) THEN FormatTextRow(row) ELSE FormatImageRow(row)

\* The rows before the first one the formatter raises on
GoodPrefixLen(rq, rows) ==
    IF \E i \in 1..Len(rows) : RowRaises(rq, rows[i])
    THEN (CHOOSE i \in 1..Len(rows) :
              /\ RowRaises(rq, rows[i])
              /\ \A j \in 1..(i - 1) : ~RowRaises(rq, rows[j])) - 1
    ELSE Len(rows)
FormatRows(rq, rows) == [i \in 1..GoodPrefixLen(rq, rows) |-> FormatRow(rq, rows[i])]

\* except Exception: ... return []   (partial: the products built before the raise)
SearchExceptReraise(partial) == [raised |-> TRUE, products |-> <<>>]
SearchExcept(partial) == [raised |-> FALSE, products |-> <<>>]

\* Where control goes when search_products_by_text / search_products_by_image
\* returns `products` to its caller
SearchReturns(rq, products) ==
    IF rq.entry = "match_products"
    THEN [rq EXCEPT !.products = products, !.pc = "describe"]
    ELSE [rq EXCEPT !.products = products, !.pc = "done", !.result = "returned",
                    !.search_mode = IF rq.entry = "search_products_multi_category"
                                    THEN "single" ELSE "none"]

\* An exception that leaves a search operation reaches its caller
SearchPropagates(rq) ==
    IF rq.entry = "match_products"
    THEN [Raise(rq, "Exception") EXCEPT !.search_raised = TRUE]
    ELSE [rq EXCEPT !.pc = "done", !.result = "raised", !.search_raised = TRUE]

\* An exception raised at `step` inside the try block of search_products_by_text /
\* search_products_by_image
SearchCaughtRetry(rq, step, partial) ==
    IF step = "embed" /\ "embed" \notin rq.caught /\ rq.image_path = "local"
    THEN [rq EXCEPT !.caught = @ \cup {step}, !.pc = "embed"]
    ELSE SearchReturns([rq EXCEPT !.caught = @ \cup {step}], <<>>)

SearchCaught(rq, step, partial) ==
    LET handled == SearchExcept(partial)
        rq2 == [rq EXCEPT !.caught = @ \cup {step}]
    IN  IF handled.raised
        THEN SearchPropagates(rq2)
        ELSE SearchReturns(rq2, handled.products)

\* sql_query = self._build_vector_search_query(...), then on to the query
ToExecute(rq, embedding) ==
    IF BuildRaises(use_vector_index, rq.parsed)
    THEN SearchCaught([rq EXCEPT !.emb = embedding], "build", <<>>)
    ELSE [rq EXCEPT !.emb = embedding, !.pc = "execute",
                    !.sql = BuildVectorSearchQuery(use_vector_index, embedding,
                                                   rq.parsed, rq.limit)]

\* ------------------------------------- ProductSearchService.search_products_by_image
\* _generate_image_embedding raises ValueError before any model call when the file
\* is not there
FileExists(rq) == rq.image_path = "local"

EmbedFileMissing(r) ==
    /\ req[r].pc = "embed"
    /\ ~FileExists(req[r])
    /\ Set(r, SearchCaught(req[r], "embed", <<>>))
    /\ UNCHANGED <<use_vector_index, clock, files>>
    /\ UNCHANGED offline

\* out: "vector" a usable embedding, "zero" a zero vector, "empty" no embedding,
\* "raise" the model call raised
EmbedOutcomes == {"vector", "zero", "empty", "raise"}

\* _generate_image_embedding returns the embedding only when the model gave one
\* and it is no zero vector; everything else raises ValueError
EmbeddingReturnedOrZero(out) == out \in {"vector", "zero"}
EmbeddingReturned(out) == out = "vector"

EmbedReturn(r) ==
    /\ req[r].pc = "embed"
    /\ "embedding" \in req[r].inflight
    /\ \E out \in EmbedOutcomes :
          LET rq == Returned(req[r], "embedding", out)
          IN  IF EmbeddingReturned(out)
              THEN Set(r, ToExecute(rq, "e1"))
              ELSE Set(r, SearchCaught(rq, "embed", <<>>))
    /\ UNCHANGED <<use_vector_index, clock, files>>
    /\ UNCHANGED offline

ExecuteReturn(r) ==
    /\ req[r].pc = "execute"
    /\ "warehouse" \in req[r].inflight
    /\ \/ Set(r, SearchCaught(Returned(req[r], "warehouse", "raise"), "execute", <<>>))
       \/ \E rows \in QueryResults(req[r].sql) :
             Set(r, [Returned(req[r], "warehouse", "rows") EXCEPT
                        !.rows = rows, !.pc = "format"])
    /\ UNCHANGED <<use_vector_index, clock, files>>
    /\ UNCHANGED offline

FormatResults(r) ==
    /\ req[r].pc = "format"
    /\ LET products == FormatRows(req[r], req[r].rows)
       IN  IF Len(products) < Len(req[r].rows)
           THEN Set(r, SearchCaught(req[r], "format", products))
           ELSE Set(r, SearchReturns(req[r], products))
    /\ UNCHANGED <<use_vector_index, clock, files>>
    /\ UNCHANGED offline

\* -------------------------------------- ProductSearchService.search_products_by_text
\* _generate_text_embedding never raises: it answers a zero vector instead
TextEmbedReturn(r) ==
    /\ req[r].pc = "text_embed"
    /\ "embedding" \in req[r].inflight
    /\ \E out \in {"vector", "empty", "raise"} :
          Set(r, ToExecute(Returned(req[r], "embedding", out),
                           IF out = "vector" THEN "e1" ELSE "zero"))
    /\ UNCHANGED <<use_vector_index, clock, files>>
    /\ UNCHANGED offline

\* ------------------------------ ProductSearchService.search_products_multi_category
Categories == {"Tops", "Bottoms"}
GarmentLists == UNION {[1..n -> Categories] : n \in 0..MaxGarments}

\* Both fallbacks of search_products_multi_category: search_products_by_image with
\* limit_per_category * 2; nothing gathered so far is kept
ToFallbackKeeping(rq) ==
    [rq EXCEPT !.pc = "embed", !.fallback = TRUE, !.limit = rq.limit * 2,
               !.rows = <<>>, !.gi = 0, !.sql = NoSql, !.emb = "none"]
ToFallback(rq) ==
    [rq EXCEPT !.pc = "embed", !.fallback = TRUE, !.limit = rq.limit * 2,
               !.by_category = <<>>, !.products = <<>>, !.rows = <<>>, !.gi = 0,
               !.sql = NoSql, !.emb = "none"]

\* analyze_garment_regions answers [] without a model call when the file is missing
GarmentsFileMissing(r) ==
    /\ req[r].pc = "garments"
    /\ ~FileExists(req[r])
    /\ Set(r, ToFallback(req[r]))
    /\ UNCHANGED <<use_vector_index, clock, files>>
    /\ UNCHANGED offline

\* analyze_garment_regions never raises: [] on any exception
GarmentsReturn(r) ==
    /\ req[r].pc = "garments"
    /\ "nlu" \in req[r].inflight
    /\ \E out \in {"list", "unparsable", "raise"}, g \in GarmentLists :
          LET rq == Returned(req[r], "nlu", out)
              garments == IF out = "list" THEN g ELSE <<>>
          IN  IF garments = <<>>
              THEN Set(r, ToFallback(rq))
              ELSE Set(r, [rq EXCEPT !.garments = garments, !.pc = "multi_embed"])
    /\ UNCHANGED <<use_vector_index, clock, files>>
    /\ UNCHANGED offline

CategoryQuery(rq, embedding, i) ==
    BuildCategorySpecificQuery(embedding, rq.garments[i], rq.limit)

MultiEmbedReturn(r) ==
    /\ req[r].pc = "multi_embed"
    /\ "embedding" \in req[r].inflight
    /\ \E out \in EmbedOutcomes :
          LET rq == Returned(req[r], "embedding", out)
          IN  IF out = "vector"
              THEN Set(r, [rq EXCEPT !.emb = "e1", !.gi = 1, !.pc = "multi_execute",
                                     !.sql = CategoryQuery(rq, "e1", 1)])
              ELSE Set(r, ToFallback(rq))
    /\ UNCHANGED <<use_vector_index, clock, files>>
    /\ UNCHANGED offline

MultiExecuteReturn(r) ==
    /\ req[r].pc = "multi_execute"
    /\ "warehouse" \in req[r].inflight
    /\ \/ Set(r, ToFallback(Returned(req[r], "warehouse", "raise")))
       \/ \E rows \in QueryResults(req[r].sql) :
             Set(r, [Returned(req[r], "warehouse", "rows") EXCEPT
                        !.rows = rows, !.pc = "multi_format"])
    /\ UNCHANGED <<use_vector_index, clock, files>>
    /\ UNCHANGED offline

Labelled(products, category) ==
    [i \in 1..Len(products) |->
        [id |-> products[i].id, name |-> products[i].name,
         price |-> products[i].price,
         similarity_score |-> products[i].similarity_score,
         matched_category |-> category]]

\* products_by_category[category] = category_products
Put(f, k, v) == [x \in DOMAIN f \cup {k} |-> IF x = k THEN v ELSE f[x]]

MultiFormat(r) ==
    /\ req[r].pc = "multi_format"
    /\ LET rq == req[r]
           category == rq.garments[rq.gi]
           products == Labelled(FormatRows(rq, rq.rows), category)
           kept == [rq EXCEPT !.by_category = Put(rq.by_category, category, products),
                              !.products = rq.products \o products]
       IN  IF Len(products) < Len(rq.rows)
           THEN Set(r, ToFallback(rq))
           ELSE IF rq.gi < Len(rq.garments)
                THEN Set(r, [kept EXCEPT !.gi = rq.gi + 1, !.pc = "multi_execute",
                                         !.sql = CategoryQuery(rq, rq.emb, rq.gi + 1)])
                ELSE Set(r, [kept EXCEPT !.pc = "done", !.result = "returned",
                                         !.search_mode = "multi_category"])
    /\ UNCHANGED <<use_vector_index, clock, files>>
    /\ UNCHANGED offline

\* ------------------------------------- SuggestionService.generate_style_suggestions
FallbackSuggestionCount == 4
FallbackSuggestions == [kind |-> "fallback", n |-> FallbackSuggestionCount]

\* No model call for an image_url outside /images/ or a missing file
SuggestLoad(r) ==
    /\ req[r].pc = "suggest_load"
    /\ IF FileExists(req[r])
       THEN Set(r, [req[r] EXCEPT !.pc = "suggest"])
       ELSE Set(r, [req[r] EXCEPT !.suggestions = FallbackSuggestions, !.pc = "respond"])
    /\ UNCHANGED <<use_vector_index, clock, files>>
    /\ UNCHANGED offline

\* out: "json" the answer parses (n suggestions), "partial" it does not parse and
\* the regular expression finds n > 0 complete objects, "unparsable" it finds none,
\* "raise" the model call raised
SuggestionsResult(out, n) ==
    CASE out = "json" -> [kind |-> "model", n |-> Min(n, MaxSuggestions)]
      [] out = "partial" -> [kind |-> "partial", n |-> n]
      [] OTHER -> FallbackSuggestions

SuggestReturn(r) ==
    /\ req[r].pc = "suggest"
    /\ "nlu" \in req[r].inflight
    /\ \E out \in {"json", "partial", "unparsable", "raise"}, n \in 0..MaxModelSuggestions :
          /\ (out = "partial") => n > 0
          /\ Set(r, [Returned(req[r], "nlu", out) EXCEPT
                     !.suggestions = SuggestionsResult(out, n), !.pc = "respond"])
    /\ UNCHANGED <<use_vector_index, clock, files>>
    /\ UNCHANGED offline

\* ------------------------------------------ NLUService.generate_prompt_variations
\* out: "list" the answer parses and "variations" is a list of n entries, "nonlist"
\* it parses and holds no list (len() raises), "unparsable" it is not JSON, "raise"
\* the model call raised
FallbackVariations == [kind |-> "fallback", n |-> VariationCount, listed |-> 0]
PromptVariationsAnyLength(out, n) ==
    IF out = "list" THEN [kind |-> "model", n |-> n, listed |-> n]
    ELSE FallbackVariations
PromptVariations(out, n) ==
    IF out = "list" /\ n = VariationCount
    THEN [kind |-> "model", n |-> n, listed |-> n]
    ELSE [FallbackVariations EXCEPT !.listed = IF out = "list" THEN n ELSE 0]

VariationsReturn(r) ==
    /\ req[r].pc = "variations"
    /\ "nlu" \in req[r].inflight
    /\ \E out \in {"list", "nonlist", "unparsable", "raise"}, n \in 0..MaxModelVariations :
          /\ (out # "list") => n = 0
          /\ Set(r, [Returned(req[r], "nlu", out) EXCEPT
                     !.variations = PromptVariations(out, n), !.pc = "done",
                     !.result = "returned"])
    /\ UNCHANGED <<use_vector_index, clock, files>>
    /\ UNCHANGED offline

\* ------------------------------- LookGenerationService.generate_look_from_products
\* Each product image is loaded in turn; a load that fails raises ValueError
LoadImageReturn(r) ==
    /\ req[r].pc = "load_images"
    /\ "http_get" \in req[r].inflight
    /\ \E out \in {"ok", "raise"} :
          LET rq == Returned(req[r], "http_get", out)
          IN  IF out = "raise"
              THEN Set(r, Raise(rq, "Exception"))
              ELSE IF rq.gi < rq.n_products
                   THEN Set(r, [rq EXCEPT !.gi = rq.gi + 1])
                   ELSE Set(r, [rq EXCEPT !.pc = "gen_look"])
    /\ UNCHANGED <<use_vector_index, clock, files>>
    /\ UNCHANGED offline

\* No image in the response raises ValueError; the except clause re-raises
LookImageReturn(r) ==
    /\ req[r].pc = "gen_look"
    /\ "image_model" \in req[r].inflight
    /\ \E out \in ImageOutcomes :
          LET name == FileName("look", clock)
              rq == Returned(req[r], "image_model", out)
          IN  IF out = "image"
              THEN /\ Set(r, [rq EXCEPT !.image = SavedImage(name), !.pc = "respond"])
                   /\ files' = Write(files, name, r)
              ELSE /\ Set(r, Raise(rq, "Exception"))
                   /\ files' = files
    /\ UNCHANGED <<use_vector_index, clock>>
    /\ UNCHANGED offline

\* ------------------------------------------------------------ main.py handlers
Ok(body, url) == [NoResponse EXCEPT !.status = 200, !.body = body, !.image_url = url]
Done(rq, resp) == [rq EXCEPT !.pc = "done", !.response = resp]

ImageRespond(r) ==
    /\ req[r].pc = "respond"
    /\ req[r].entry \in {"search", "search_by_image", "refine", "create_look"}
    /\ Set(r, Done(req[r], Ok("image", req[r].image.image_url)))
    /\ UNCHANGED <<use_vector_index, clock, files>>
    /\ UNCHANGED offline

\* Product(**p): name is a str, id an Optional[str]; a name of None is a
\* validation error
ProductRaises(product) == product.name = None

\* sum(p.get("similarity_score", 0) for p in products)
RECURSIVE SumScores(_)
SumScores(products) ==
    IF products = <<>> THEN 0
    ELSE products[1].similarity_score + SumScores(Tail(products))

\* generate_match_description: the parts of the sentence.  avg_similarity > 0.8
\* and > 0.6 are compared without dividing: sum * 10 > 8 * Scale * count.
GenerateMatchDescription(products, parsed) ==
    IF products = <<>>
    THEN <<"none_found">>
    ELSE <<"found">>
         \o (IF Truthy(parsed.price_max) THEN <<"within_budget">> ELSE <<>>)
         \o (IF SumScores(products) * 10 > 8 * Scale * Len(products)
             THEN <<"excellent">>
             ELSE IF SumScores(products) * 10 > 6 * Scale * Len(products)
                  THEN <<"good">> ELSE <<>>)

\* generate_match_description reads parsed_attributes only when products were found
MatchProductsRespond(r) ==
    /\ req[r].pc = "describe"
    /\ IF \/ req[r].products # <<>> /\ AttrsGetRaises(req[r].parsed)
          \/ \E i \in 1..Len(req[r].products) : ProductRaises(req[r].products[i])
       THEN Set(r, Raise(req[r], "Exception"))
       ELSE Set(r, Done(req[r],
                        [Ok("products", <<"none", 0>>) EXCEPT
                            !.match_description =
                                GenerateMatchDescription(req[r].products, req[r].parsed)]))
    /\ UNCHANGED <<use_vector_index, clock, files>>
    /\ UNCHANGED offline

SuggestRespond(r) ==
    /\ req[r].pc = "respond"
    /\ req[r].entry = "suggest_refinements"
    /\ Set(r, Done(req[r], Ok("suggestions", <<"none", 0>>)))
    /\ UNCHANGED <<use_vector_index, clock, files>>
    /\ UNCHANGED offline

\* create_look: the product count is checked before the service is called
CountRejected(n) == n < MinLookProducts \/ n > MaxLookProducts

CreateLookValidate(r) ==
    /\ req[r].pc = "validate"
    /\ IF CountRejected(req[r].n_products)
       THEN Set(r, Raise(req[r], "HTTPException400"))
       ELSE Set(r, [req[r] EXCEPT !.pc = "load_images", !.gi = 1])
    /\ UNCHANGED <<use_vector_index, clock, files>>
    /\ UNCHANGED offline

HealthRespond(r) ==
    /\ req[r].pc = "respond"
    /\ req[r].entry = "health"
    /\ Set(r, Done(req[r], Ok("healthy", <<"none", 0>>)))
    /\ UNCHANGED <<use_vector_index, clock, files>>
    /\ UNCHANGED offline

HandlerCatch(r) ==
    /\ req[r].pc = "except"
    /\ req[r].entry \in Endpoints
    /\ Set(r, Done(req[r], HandlerExcept(req[r].entry, req[r].exc)))
    /\ UNCHANGED <<use_vector_index, clock, files>>
    /\ UNCHANGED offline

Step(r) ==
    \/ Receive(r, Endpoints \cup Operations)
    \/ Issue(r)
    \/ ParseReturn(r)
    \/ AnalyzeReturn(r)
    \/ ConceptImageReturn(r)
    \/ RefineImageReturn(r)
    \/ EmbedFileMissing(r)
    \/ EmbedReturn(r)
    \/ ExecuteReturn(r)
    \/ FormatResults(r)
    \/ TextEmbedReturn(r)
    \/ GarmentsFileMissing(r)
    \/ GarmentsReturn(r)
    \/ MultiEmbedReturn(r)
    \/ MultiExecuteReturn(r)
    \/ MultiFormat(r)
    \/ SuggestLoad(r)
    \/ SuggestReturn(r)
    \/ VariationsReturn(r)
    \/ LoadImageReturn(r)
    \/ LookImageReturn(r)
    \/ CreateLookValidate(r)
    \/ ImageRespond(r)
    \/ MatchProductsRespond(r)
    \/ SuggestRespond(r)
    \/ HealthRespond(r)
    \/ HandlerCatch(r)

\* One request or operation at a time, every handler and operation
Next == Tick \/ Step(1)

Spec == Init /\ [][Next]_vars

\* Two requests to the endpoints that write an image file, interleaved
ImageEndpoints == {"search", "search_by_image", "refine", "create_look"}

ImageStep(r) ==
    \/ Receive(r, ImageEndpoints)
    \/ Issue(r)
    \/ ParseReturn(r)
    \/ AnalyzeReturn(r)
    \/ ConceptImageReturn(r)
    \/ RefineImageReturn(r)
    \/ LoadImageReturn(r)
    \/ LookImageReturn(r)
    \/ CreateLookValidate(r)
    \/ ImageRespond(r)
    \/ HandlerCatch(r)

NextConcurrent == Tick \/ \E r \in Reqs : ImageStep(r)

SpecConcurrent == Init /\ [][NextConcurrent]_vars

\* ------------------------------------------- requests against a changing table
\* The catalog pipeline is about to add one product while requests are served.
\* A table as it can stand in the warehouse: any number of rows, identifier and
\* name of a row present or NULL
TableRecords(i) ==
    [product_id : {None, Some(i)}, product_name : {None, Some("name")},
     price_original : {Some(PriceStep * i)}, price_discounted : {None}]
Tables ==
    UNION {{t \in [1..n -> UNION {TableRecords(i) : i \in 1..MaxRows}] :
               \A i \in 1..n : t[i] \in TableRecords(i)} : n \in 0..MaxRows}

InitWarehouse ==
    /\ use_vector_index \in BOOLEAN
    /\ clock = 0
    /\ files = [n \in {} |-> 0]
    /\ req = [r \in Reqs |-> IdleReq]
    /\ built = NoBuilt
    /\ table \in Tables
    /\ gen = NoGen
    /\ catalog = [NoCatalog EXCEPT !.stage = "loop", !.total = 1, !.step = "spec"]

\* The response has been sent: the handler's locals are gone and the next request
\* can arrive.  served counts the responses sent so far, up to MaxServed.
Finish(r) ==
    /\ req[r].pc = "done"
    /\ Set(r, [IdleReq EXCEPT !.served = Min(req[r].served + 1, MaxServed)])
    /\ UNCHANGED <<use_vector_index, clock, files>>
    /\ UNCHANGED offline

MatchStep(r) ==
    \/ Receive(r, {"match_products"})
    \/ Issue(r)
    \/ ParseReturn(r)
    \/ EmbedFileMissing(r)
    \/ EmbedReturn(r)
    \/ ExecuteReturn(r)
    \/ FormatResults(r)
    \/ MatchProductsRespond(r)
    \/ HandlerCatch(r)
    \/ Finish(r)


\* ------------------------------------------------------ the text of a query
\* A string is a sequence of characters and a query text a sequence of tokens: the
\* fixed pieces of the f-string templates, and, between them, the characters of the
\* attribute values exactly as the templates interpolate them (lower-cased, not
\* escaped).  A number interpolates as the token "NUM".
Chars == {"a", "A", "'"}
Strings == UNION {[1..n -> Chars] : n \in 1..MaxStrLen}
StringLists == UNION {[1..n -> Strings] : n \in 0..MaxValues}
OptStrings == {None} \cup Strings
OptPrices == {None, Some(0), Some(50)}
FilterAttrs ==
    [price_max : OptPrices, price_min : {None, Some(50)}, colors : StringLists,
     garment_types : StringLists, gender : OptStrings, season : OptStrings]

\* str.lower()
LowerChar(ch) == IF ch = "A" THEN "a" ELSE ch
Lower(str) == [i \in 1..Len(str) |-> LowerChar(str[i])]
\* sep.join(parts)
RECURSIVE Join(_, _)
Join(parts, sep) ==
    IF parts = <<>> THEN <<>>
    ELSE IF Len(parts) = 1 THEN parts[1]
    ELSE parts[1] \o <<sep>> \o Join(Tail(parts), sep)

\* f"LOWER(JSON_VALUE(metadata, '<path>')) LIKE '%{v.lower()}%'"
LikeCondition(column, v) == <<column, "LIKE", "'", "%">> \o Lower(v) \o <<"%", "'">>
\* f"LOWER(JSON_VALUE(metadata, '$.gender')) = '{v.lower()}'"
EqualCondition(column, v) == <<column, "=", "'">> \o Lower(v) \o <<"'">>
\* f"({' OR '.join(conditions)})"
OrGroup(column, values) ==
    <<"(">> \o Join([i \in 1..Len(values) |-> LikeCondition(column, values[i])], "OR")
            \o <<")">>

\* _build_where_clauses: the list of conditions, each one a piece of text
BuildWhereClausesText(attrs) ==
       (IF Truthy(attrs.price_max) THEN <<(<<"price", "<=", "NUM">>)>> ELSE <<>>)
    \o (IF Truthy(attrs.price_min) THEN <<(<<"price", ">=", "NUM">>)>> ELSE <<>>)
    \o (IF attrs.colors # <<>> THEN <<OrGroup("baseColour", attrs.colors)>> ELSE <<>>)
    \o (IF attrs.garment_types # <<>>
        THEN <<OrGroup("typeName", attrs.garment_types)>> ELSE <<>>)
    \o (IF attrs.gender # None THEN <<EqualCondition("gender", attrs.gender)>> ELSE <<>>)
    \o (IF attrs.season # None THEN <<LikeCondition("season", attrs.season)>> ELSE <<>>)

\* where_clause = "WHERE " + " AND ".join(where_clauses) if where_clauses else ""
WhereClauseText(attrs) ==
    IF BuildWhereClausesText(attrs) = <<>> THEN <<>>
    ELSE <<"WHERE">> \o Join(BuildWhereClausesText(attrs), "AND")

\* _build_manual_similarity_query
BuildManualSimilarityQueryText(attrs) ==
    <<"WITH", "SELECT", "FROM">> \o WhereClauseText(attrs) \o <<"ORDER BY", "LIMIT", "NUM">>
\* _build_vector_index_query: parsed_attributes is not used
BuildVectorIndexQueryText(attrs) ==
    <<"SELECT", "FROM", "VECTOR_SEARCH", "(", "TABLE", "'", "embedding", "'", "NUM",
      "'", "COSINE", "'", ")">>
\* _build_vector_search_query
BuildVectorSearchQueryText(use_index, attrs) ==
    IF use_index THEN BuildVectorIndexQueryText(attrs)
    ELSE BuildManualSimilarityQueryText(attrs)
\* _build_category_specific_query
BuildCategorySpecificQueryText(category) ==
    <<"SELECT", "FROM", "VECTOR_SEARCH", "(", "TABLE", "WHERE">>
        \o EqualCondition("category", category)
        \o <<"'", "embedding", "'", "NUM", "'", "COSINE", "'", ")">>

\* The query builders applied to every set of filter attributes and every category
InitQuery ==
    /\ use_vector_index \in BOOLEAN
    /\ clock = 0
    /\ files = [n \in {} |-> 0]
    /\ req = [r \in Reqs |-> IdleReq]
    /\ \E a \in FilterAttrs : built = [NoBuilt EXCEPT !.stage = "input", !.attrs = a]
    /\ table = Catalog
    /\ gen = NoGen
    /\ catalog = NoCatalog

CallBuildVectorSearchQuery ==
    /\ built.stage = "input"
    /\ built' = [built EXCEPT !.stage = "search",
                              !.text = BuildVectorSearchQueryText(use_vector_index, built.attrs)]
    /\ UNCHANGED <<use_vector_index, clock, files, req, table, gen, catalog>>

CallBuildCategorySpecificQuery ==
    /\ built.stage = "input"
    /\ \E c \in Strings :
          built' = [built EXCEPT !.stage = "category", !.category = c,
                                 !.text = BuildCategorySpecificQueryText(c)]
    /\ UNCHANGED <<use_vector_index, clock, files, req, table, gen, catalog>>

NextQuery == CallBuildVectorSearchQuery \/ CallBuildCategorySpecificQuery
SpecQuery == InitQuery /\ [][NextQuery]_vars

\* ------------------------------- ProductSpecsGenerator.generate_specifications
\* CATEGORY_DISTRIBUTION, in the order the dictionary is written
CategoryNames == <<"Tops", "Bottoms", "Dresses", "Outerwear", "Activewear", "Knitwear">>
CategoryDistribution == <<45, 40, 40, 30, 20, 25>>

\* The totals the script is asked for: the default and a few small ones
TotalCounts == (0..MaxTotalCount) \cup {DefaultTotalCount}

\* How many specifications of the model's answer pass _validate_spec: the model
\* answers a list of any length and the invalid entries are dropped
ValidatedCounts(count) == (0..MaxModelSpecs) \cup {count}

\* _generate_fallback_specs: one templated specification per range(count)
FallbackSpecCount(count) == count

InitGenerator ==
    /\ use_vector_index \in BOOLEAN
    /\ clock = 0
    /\ files = [n \in {} |-> 0]
    /\ req = [r \in Reqs |-> IdleReq]
    /\ built = NoBuilt
    /\ table = Catalog
    /\ \E t \in TotalCounts :
          gen = [stage |-> "running", total_count |-> t, ci |-> 1, all_specs |-> 0,
                 paths |-> <<>>]
    /\ catalog = NoCatalog

\* One pass of the loop over CATEGORY_DISTRIBUTION, the model answering a list:
\* the validated entries are appended
CategorySpecsFromModel ==
    /\ gen.stage = "running"
    /\ gen.ci <= Len(CategoryDistribution)
    /\ \E v \in ValidatedCounts(CategoryDistribution[gen.ci]) :
          gen' = [gen EXCEPT !.ci = @ + 1, !.all_specs = @ + v,
                             !.paths = Append(@, "model")]
    /\ UNCHANGED <<use_vector_index, clock, files, req, built, table, catalog>>

\* One pass of the loop, the model call or the parsing of its answer raising: the
\* templates give the category's count
CategorySpecsFallback ==
    /\ gen.stage = "running"
    /\ gen.ci <= Len(CategoryDistribution)
    /\ gen' = [gen EXCEPT !.ci = @ + 1,
                          !.all_specs = @ + FallbackSpecCount(CategoryDistribution[gen.ci]),
                          !.paths = Append(@, "fallback")]
    /\ UNCHANGED <<use_vector_index, clock, files, req, built, table, catalog>>

\* return all_specs
GenerateSpecificationsReturn ==
    /\ gen.stage = "running"
    /\ gen.ci > Len(CategoryDistribution)
    /\ gen' = [gen EXCEPT !.stage = "returned"]
    /\ UNCHANGED <<use_vector_index, clock, files, req, built, table, catalog>>

NextGenerator ==
    CategorySpecsFromModel \/ CategorySpecsFallback \/ GenerateSpecificationsReturn
SpecGenerator == InitGenerator /\ [][NextGenerator]_vars

\* ------------------------------------------- CatalogCreator.create_catalog
\* Line 90: a missing image result raises, anything else goes on to the embedding
AfterImageResultUnchecked(image_result) == "embedding"
AfterImageResult(image_result) == IF image_result = None THEN "except" ELSE "embedding"

\* Where product_specs[resume_from:] starts in a list of the given length: a
\* negative start counts from the end, and the slice is empty from the end on
SliceStart(total, resume_from) ==
    IF resume_from >= 0 THEN Min(resume_from, total) ELSE Max(0, total + resume_from)

\* create_catalog(product_specs, resume_from) has been called on a new
\* CatalogCreator; the table is the new synthetic_products table
InitCatalog ==
    /\ use_vector_index \in BOOLEAN
    /\ clock = 0
    /\ files = [n \in {} |-> 0]
    /\ req = [r \in Reqs |-> IdleReq]
    /\ built = NoBuilt
    /\ table = <<>>
    /\ gen = NoGen
    /\ \E total \in 0..MaxSpecs, resume_from \in (0 - MaxSpecs)..(MaxSpecs + 1) :
          catalog = [NoCatalog EXCEPT !.stage = "loop", !.total = total,
                                      !.resume_from = resume_from, !.i = resume_from,
                                      !.pos = SliceStart(total, resume_from),
                                      !.step = "spec"]

\* The loop is at the given step of the specification at position pos, which
\* enumerate numbers i
InLoop(step) == catalog.stage = "loop" /\ catalog.step = step /\ catalog.pos < catalog.total

\* Lines 81-86: the specification's keys are read for the progress line; a
\* specification without one of them raises KeyError
ReadSpec ==
    /\ InLoop("spec")
    /\ \E out \in {"ok", "raise"} :
          catalog' = [catalog EXCEPT
              !.step = IF out = "ok" THEN "imagen" ELSE "except",
              !.trace = Append(@, <<catalog.i, IF out = "ok" THEN "start" ELSE "bad_spec">>)]
    /\ UNCHANGED <<use_vector_index, clock, files, req, built, table, gen>>

\* generate_product_image, up to the image bytes: _generate_with_imagen4 gives
\* bytes, or None (no image, or the model raised), and None is returned at once
GenerateWithImagen4 ==
    /\ InLoop("imagen")
    /\ \E out \in {"bytes", "none"} :
          catalog' = [catalog EXCEPT
              !.step = IF out = "bytes" THEN "upload" ELSE AfterImageResult(None),
              !.trace = Append(@, <<catalog.i, IF out = "bytes" THEN "image" ELSE "image_failed">>)]
    /\ UNCHANGED <<use_vector_index, clock, files, req, built, table, gen>>

\* generate_product_image, the rest: the upload returns the URI and the result
\* dictionary is returned, or it raises and the except clause returns None
UploadToGcs ==
    /\ InLoop("upload")
    /\ \E out \in {"uri", "raise"} :
          catalog' = [catalog EXCEPT
              !.step = AfterImageResult(IF out = "uri" THEN Some("dict") ELSE None),
              !.trace = Append(@, <<catalog.i, IF out = "uri" THEN "upload" ELSE "upload_failed">>)]
    /\ UNCHANGED <<use_vector_index, clock, files, req, built, table, gen>>

\* generate_embedding never raises: the model's vector, or the zero vector when
\* the model gave none or raised
GenerateEmbedding ==
    /\ InLoop("embedding")
    /\ \E out \in {"embedding", "zero_embedding"} :
          catalog' = [catalog EXCEPT !.step = "insert",
                                     !.trace = Append(@, <<catalog.i, out>>)]
    /\ UNCHANGED <<use_vector_index, clock, files, req, built, table, gen>>

\* _insert_into_bigquery: the row is stored
InsertIntoBigquery ==
    /\ InLoop("insert")
    /\ table' = Append(table, ProductRecord(Len(table) + 1))
    /\ catalog' = [catalog EXCEPT !.step = "log_success",
                                  !.inserted = Append(@, catalog.i),
                                  !.trace = Append(@, <<catalog.i, "insert">>)]
    /\ UNCHANGED <<use_vector_index, clock, files, req, built, gen>>

\* _insert_into_bigquery raises: a key of the row is missing, the client raises
\* or it reports errors for the row
InsertRaises ==
    /\ InLoop("insert")
    /\ catalog' = [catalog EXCEPT !.step = "except",
                                  !.trace = Append(@, <<catalog.i, "insert_failed">>)]
    /\ UNCHANGED <<use_vector_index, clock, files, req, built, table, gen>>

\* Lines 110-116: the success entry is written and counted, and the loop goes on
LogSuccess ==
    /\ InLoop("log_success")
    /\ catalog' = [catalog EXCEPT
          !.log = Append(@, [index |-> catalog.i, status |-> "success"]),
          !.success_count = @ + 1,
          !.i = @ + 1,
          !.pos = @ + 1,
          !.step = "spec"]
    /\ UNCHANGED <<use_vector_index, clock, files, req, built, table, gen>>

\* Lines 118-124: the failure entry is written and counted, and the loop goes on
LogFailure ==
    /\ InLoop("except")
    /\ catalog' = [catalog EXCEPT
          !.log = Append(@, [index |-> catalog.i, status |-> "failure"]),
          !.failure_count = @ + 1,
          !.i = @ + 1,
          !.pos = @ + 1,
          !.step = "spec"]
    /\ UNCHANGED <<use_vector_index, clock, files, req, built, table, gen>>

\* The slice is exhausted
LoopEnd ==
    /\ catalog.stage = "loop"
    /\ catalog.step = "spec"
    /\ catalog.pos >= catalog.total
    /\ catalog' = [catalog EXCEPT !.stage = "report", !.step = "none"]
    /\ UNCHANGED <<use_vector_index, clock, files, req, built, table, gen>>

\* _generate_report(total) divides the counts by total
GenerateReport ==
    /\ catalog.stage = "report"
    /\ catalog' = [catalog EXCEPT !.stage = IF catalog.total = 0 THEN "raised" ELSE "done"]
    /\ UNCHANGED <<use_vector_index, clock, files, req, built, table, gen>>

CatalogStep ==
    \/ ReadSpec
    \/ GenerateWithImagen4
    \/ UploadToGcs
    \/ GenerateEmbedding
    \/ InsertIntoBigquery
    \/ InsertRaises
    \/ LogSuccess
    \/ LogFailure
    \/ LoopEnd
    \/ GenerateReport

NextCatalog == CatalogStep
SpecCatalog == InitCatalog /\ [][NextCatalog]_vars

\* Requests are served while the pipeline fills the table
NextWarehouse == MatchStep(1) \/ CatalogStep
SpecWarehouse == InitWarehouse /\ [][NextWarehouse]_vars

\* ============================================================== properties
HasEvent(rq, call, out) == \E i \in 1..Len(rq.log) : rq.log[i] = <<call, out>>
CallRaised(rq, call) == HasEvent(rq, call, "raise")
Starts(rq, call) == Cardinality({i \in 1..Len(rq.log) : rq.log[i] = <<call, "start">>})
\* Some call to `call` has completed (returned or raised) before position j of the log
CompletedBefore(rq, call, j) ==
    \E i \in 1..(j - 1) : rq.log[i][1] = call /\ rq.log[i][2] # "start"
\* How often the call that raised at position i of the log was issued again after it
ReissuesAfter(rq, i) ==
    Cardinality({j \in (i + 1)..Len(rq.log) : rq.log[j] = <<rq.log[i][1], "start">>})

\* The products of a by-image search stand beside the rows they were built from
ImageProductsBuilt(rq) ==
    /\ rq.entry \in {"match_products", "search_products_by_image",
                     "search_products_multi_category"}
    /\ rq.pc \in {"describe", "done", "except"}
    /\ rq.search_mode # "multi_category"
    /\ rq.rows # <<>>
    /\ Len(rq.products) = Len(rq.rows)
\* The products of the category just searched stand beside its rows
CategoryProductsBuilt(rq) ==
    /\ rq.entry = "search_products_multi_category"
    /\ ~rq.fallback
    /\ rq.rows # <<>>
    /\ \/ rq.pc = "multi_execute" /\ rq.gi > 1
       \/ rq.pc = "done" /\ rq.search_mode = "multi_category"
LastCategory(rq) == IF rq.pc = "done" THEN rq.garments[rq.gi] ELSE rq.garments[rq.gi - 1]

ScoreIs(product, row) ==
    ("distance" \in DOMAIN row /\ row.distance # None /\ row.distance[1] \in Distances)
    => /\ (row.distance[1] <= Scale) => product.similarity_score = Scale - row.distance[1]
       /\ (row.distance[1] >= Scale) => product.similarity_score = 0

\* C1: for every warehouse row whose distance d lies in [0, 2], the product that
\* search_products_by_image and search_products_multi_category build from it has
\* similarity_score = max(0, 1 - d)  (1 - d up to d = 1, 0 from there on).
C1_ScoreFromDistance ==
    \A r \in Reqs :
        /\ ImageProductsBuilt(req[r]) =>
              \A i \in 1..Len(req[r].rows) : ScoreIs(req[r].products[i], req[r].rows[i])
        /\ CategoryProductsBuilt(req[r]) =>
              /\ Len(req[r].by_category[LastCategory(req[r])]) = Len(req[r].rows)
              /\ \A i \in 1..Len(req[r].rows) :
                    ScoreIs(req[r].by_category[LastCategory(req[r])][i], req[r].rows[i])

\* A search by image has built a product from a row whose distance is above 1
C1_Witness ==
    \E r \in Reqs :
        /\ ImageProductsBuilt(req[r])
        /\ req[r].entry = "search_products_by_image"
        /\ \E i \in 1..Len(req[r].rows) :
              /\ "distance" \in DOMAIN req[r].rows[i]
              /\ req[r].rows[i].distance = Some(2 * Scale)
              /\ req[r].products[i].similarity_score = 0

\* C2: every product returned by search_products_by_text, search_products_by_image
\* or search_products_multi_category carries a similarity_score within [0, 1],
\* whatever distance or similarity the warehouse returned for its row.
C2_ScoreInUnitRange ==
    \A r \in Reqs :
        (req[r].pc = "done" /\ req[r].entry \in Operations) =>
            \A i \in 1..Len(req[r].products) :
                /\ req[r].products[i].similarity_score >= 0
                /\ req[r].products[i].similarity_score <= Scale

\* The fallback payload that stands in for a call that raised
FallbackFor(rq, call) ==
    CASE call = "nlu" /\ rq.entry \in {"search", "search_by_image", "match_products"} ->
             rq.parsed.kind = "fallback"
      [] call = "nlu" /\ rq.entry = "suggest_refinements" ->
             rq.suggestions.kind = "fallback"
      [] call = "image_model" /\ rq.entry \in {"search", "search_by_image", "refine"} ->
             rq.image.kind = "fallback"
      [] call \in {"embedding", "warehouse"} /\ rq.entry = "match_products" ->
             rq.products = <<>>
      [] OTHER -> FALSE
ExternalCalls == {"nlu", "image_model", "embedding", "warehouse", "http_get"}

\* C3: for every endpoint and every external call it makes, an exception raised by
\* the call never leaves the handler unhandled: the request ends with a success
\* response that carries the fallback payload of every call that raised, or with an
\* HTTP 500 whose detail carries a message.
C3_ExceptionsHandled ==
    \A r \in Reqs :
        (req[r].entry \in Endpoints /\ req[r].pc = "done"
         /\ \E c \in ExternalCalls : CallRaised(req[r], c)) =>
            /\ ~req[r].response.unhandled
            /\ \/ /\ req[r].response.status = 200
                  /\ \A c \in ExternalCalls : CallRaised(req[r], c) => FallbackFor(req[r], c)
               \/ /\ req[r].response.status = 500
                  /\ req[r].response.detail # ""

\* create-look has answered 500 with a message after its image model call raised
C3_Witness ==
    \E r \in Reqs :
        /\ req[r].entry = "create_look"
        /\ req[r].pc = "done"
        /\ CallRaised(req[r], "image_model")
        /\ req[r].response.status = 500
        /\ req[r].response.detail # ""

\* What the three kinds of service method have returned, and what their call did
ImageMethodDone(rq) ==
    rq.entry \in {"search", "search_by_image", "refine"} /\ rq.image.kind # "none"
ParseMethodDone(rq) ==
    rq.entry \in {"search", "match_products"} /\ rq.parsed.kind # "none"
SuggestMethodDone(rq) ==
    rq.entry = "suggest_refinements" /\ rq.suggestions.kind # "none"

C5_SearchNeverRaises ==
    \A r \in Reqs :
        /\ ~req[r].search_raised
        /\ req[r].result # "raised"
        /\ (req[r].caught # {}) =>
              /\ req[r].products = <<>>
              /\ req[r].pc \in {"describe", "done"}
              /\ (req[r].pc = "done" /\ req[r].entry \in Operations)
                     => req[r].result = "returned"

\* search_products_by_text has returned [] after formatting raised on the second
\* row, the first row already formatted
C5_Witness ==
    \E r \in Reqs :
        /\ req[r].entry = "search_products_by_text"
        /\ req[r].pc = "done"
        /\ req[r].caught = {"format"}
        /\ Len(req[r].rows) = 2
        /\ ~TextRowRaises(req[r].rows[1])
        /\ req[r].products = <<>>

\* C6: POST /api/create-look accepts only 2 or 3 products: with fewer than 2 or
\* more than 3 the handler answers HTTP 400, never a 500, and neither the look
\* generation service nor any model or download is invoked for the request.
C6_CreateLookCount ==
    \A r \in Reqs :
        (req[r].entry = "create_look") =>
            /\ (req[r].n_products < 2 \/ req[r].n_products > 3) =>
                  /\ req[r].log = <<>>
                  /\ req[r].inflight = {}
                  /\ req[r].pc \in {"validate", "except", "done"}
                  /\ (req[r].pc = "done") =>
                        (req[r].response.status = 400 /\ ~req[r].response.unhandled)
            /\ (req[r].pc = "done" /\ req[r].response.status = 200) =>
                  req[r].n_products \in {2, 3}

\* create-look has answered 400 to a request with four products
C6_Witness ==
    \E r \in Reqs :
        /\ req[r].entry = "create_look"
        /\ req[r].n_products = 4
        /\ req[r].pc = "done"
        /\ req[r].response.status = 400

\* C7: for every interleaving of two requests that generate an image, the image_url
\* returned to a request names a file that holds the image generated for that
\* same request.
C7_UrlNamesOwnImage ==
    \A r \in Reqs :
        (req[r].pc = "done" /\ req[r].response.status = 200
         /\ req[r].image.kind = "file") =>
            /\ req[r].response.image_url \in DOMAIN files
            /\ files[req[r].response.image_url] = r

NoReissueAfterFailure(rq) ==
    \A i \in 1..Len(rq.log) : (rq.log[i][2] = "raise") => ReissuesAfter(rq, i) = 0

\* C8 as stated: within one request or search operation a call that failed is never
\* issued again, and the embedding service is called at most once, also in
\* search_products_multi_category and its fallback path.
C8_NoCallReissued ==
    \A r \in Reqs :
        /\ Starts(req[r], "embedding") <= 1
        /\ NoReissueAfterFailure(req[r])

\* C8 amended: every request and search operation other than
\* search_products_multi_category calls the embedding service at most once and never
\* issues a failed call again.  search_products_multi_category calls it at most
\* twice: once on its main path, and once more only in its fallback
\* (search_products_by_image), which runs also after the first embedding call failed;
\* a call that failed is issued again at most once, and only by that fallback.
C8_OneReissueInFallbackOnly ==
    \A r \in Reqs :
        IF req[r].entry = "search_products_multi_category"
        THEN /\ Starts(req[r], "embedding") <= 2
             /\ (Starts(req[r], "embedding") = 2) => req[r].fallback
             /\ (~req[r].fallback) =>
                   (Starts(req[r], "embedding") <= 1 /\ NoReissueAfterFailure(req[r]))
             /\ \A i \in 1..Len(req[r].log) :
                   (req[r].log[i][2] = "raise") =>
                       /\ ReissuesAfter(req[r], i) <= 1
                       /\ (ReissuesAfter(req[r], i) = 1) => req[r].fallback
        ELSE /\ Starts(req[r], "embedding") <= 1
             /\ NoReissueAfterFailure(req[r])

\* The multi-category search has issued the embedding call a second time, in its
\* fallback, after the first one raised
C8_Witness ==
    \E r \in Reqs :
        /\ req[r].entry = "search_products_multi_category"
        /\ req[r].fallback
        /\ Starts(req[r], "embedding") = 2
        /\ req[r].log[Len(req[r].log)] = <<"embedding", "start">>
        /\ \E i \in 1..Len(req[r].log) : req[r].log[i] = <<"embedding", "raise">>

\* C9: within one request the external calls run strictly one after another in a
\* fixed order: for /api/match-products the NLU parse completes before the embedding
\* call starts, the embedding completes before the warehouse query is issued and the
\* query completes before results are formatted; for /api/search the parse completes
\* before image generation starts.  No two calls of a request are in flight together.
C9_CallsSequential ==
    \A r \in Reqs :
        /\ Cardinality(req[r].inflight) <= 1
        /\ \A j \in 1..Len(req[r].log) :
              /\ (req[r].entry = "match_products" /\ req[r].log[j] = <<"embedding", "start">>)
                    => (CompletedBefore(req[r], "nlu", j) /\ req[r].log[j - 1][1] = "nlu")
              /\ (req[r].entry = "match_products" /\ req[r].log[j] = <<"warehouse", "start">>)
                    => req[r].log[j - 1] = <<"embedding", "vector">>
              /\ (req[r].entry = "search" /\ req[r].log[j] = <<"image_model", "start">>)
                    => (j > 1 /\ req[r].log[j - 1][1] = "nlu" /\ req[r].log[j - 1][2] # "start")
        /\ (req[r].entry = "match_products" /\ req[r].pc = "format") =>
              /\ req[r].inflight = {}
              /\ req[r].log[Len(req[r].log)] = <<"warehouse", "rows">>
        /\ (req[r].entry = "match_products" /\ req[r].products # <<>>) =>
              HasEvent(req[r], "warehouse", "rows")

\* match-products has answered with products after parse, embedding and query
C9_Witness ==
    \E r \in Reqs :
        /\ req[r].entry = "match_products"
        /\ req[r].pc = "done"
        /\ req[r].response.status = 200
        /\ req[r].products # <<>>
        /\ Len(req[r].log) = 6

\* C10: _build_vector_search_query returns the indexed VECTOR_SEARCH query if and
\* only if use_vector_index is true, and the manual cosine-similarity query
\* otherwise, whatever the embedding, the parsed attributes and the limit are.
C10_QueryChoiceByFlag ==
    \A r \in Reqs :
        (req[r].sql.kind \in {"VECTOR_SEARCH", "MANUAL"}) =>
            /\ (req[r].sql.kind = "VECTOR_SEARCH") <=> use_vector_index
            /\ (req[r].sql.kind = "MANUAL") <=> ~use_vector_index

\* The indexed query was built for attributes that carry filters
C10_Witness ==
    \E r \in Reqs :
        /\ req[r].sql.kind = "VECTOR_SEARCH"
        /\ BuildWhereClauses(req[r].parsed) # <<>>
        /\ req[r].sql.embedding = "zero"
        /\ req[r].sql.limit = DefaultLimit
\* Reading a query text as SQL does: a quote opens a string literal and the next quote
\* closes it.  Each closed literal reads as LIT, a literal still open at the end of
\* the text as OPEN, and everything outside a literal as itself.
RECURSIVE LexFrom(_, _, _)
LexFrom(text, i, inlit) ==
    IF i > Len(text) THEN (IF inlit THEN <<"OPEN">> ELSE <<>>)
    ELSE IF text[i] = "'"
         THEN (IF inlit THEN <<"LIT">> \o LexFrom(text, i + 1, FALSE)
               ELSE LexFrom(text, i + 1, TRUE))
         ELSE (IF inlit THEN LexFrom(text, i + 1, TRUE)
               ELSE <<text[i]>> \o LexFrom(text, i + 1, FALSE))
Lex(text) == LexFrom(text, 1, FALSE)
Has(toks, t) == \E i \in 1..Len(toks) : toks[i] = t
LiteralsClosed(text) == ~Has(Lex(text), "OPEN")

\* conditions := condition (AND condition)*
\* condition  := simple | "(" simple (OR simple)* ")"
\* simple     := column operator (LIT | NUM)
RECURSIVE Accepts(_, _, _, _)
Accepts(toks, i, state, depth) ==
    IF i > Len(toks) THEN state = "after" /\ depth = 0
    ELSE CASE state = "cond" /\ toks[i] = "(" /\ depth = 0 -> Accepts(toks, i + 1, "cond", 1)
           [] state = "cond"
              /\ toks[i] \in {"price", "baseColour", "typeName", "gender", "season", "category"}
                  -> Accepts(toks, i + 1, "op", depth)
           [] state = "op" /\ toks[i] \in {"LIKE", "=", "<=", ">="}
                  -> Accepts(toks, i + 1, "val", depth)
           [] state = "val" /\ toks[i] \in {"LIT", "NUM"} -> Accepts(toks, i + 1, "after", depth)
           [] state = "after" /\ toks[i] = "AND" /\ depth = 0 -> Accepts(toks, i + 1, "cond", 0)
           [] state = "after" /\ toks[i] = "OR" /\ depth = 1 -> Accepts(toks, i + 1, "cond", 1)
           [] state = "after" /\ toks[i] = ")" /\ depth = 1 -> Accepts(toks, i + 1, "after", 0)
           [] OTHER -> FALSE
\* The conditions of the manual query: what stands between WHERE and ORDER BY
Position(toks, t) == CHOOSE i \in 1..Len(toks) : toks[i] = t
ConditionsOf(toks) ==
    SubSeq(toks, Position(toks, "WHERE") + 1, Position(toks, "ORDER BY") - 1)

\* C11: for every set of filter attributes the text built by the query templating is
\* well formed: it contains WHERE exactly when at least one filter condition exists,
\* conditions are joined only by AND with each multi-value group parenthesised and
\* joined by OR, and every string literal opened by a quote is closed, whatever
\* characters the attribute values (colors, garment types, gender, season, category)
\* contain.
C11_QueryTextWellFormed ==
    /\ (built.stage \in {"search", "category"}) => LiteralsClosed(built.text)
    /\ (built.stage = "search" /\ ~use_vector_index) =>
          /\ Has(built.text, "WHERE") <=> BuildWhereClausesText(built.attrs) # <<>>
          /\ Has(Lex(built.text), "WHERE") =>
                (/\ Has(Lex(built.text), "ORDER BY")
                 /\ Accepts(ConditionsOf(Lex(built.text)), 1, "cond", 0))
\* C12: the product list returned by /api/match-products is ranked: products appear
\* in non-increasing order of similarity_score, for both settings of
\* use_vector_index.
C12_ProductsRanked ==
    \A r \in Reqs :
        (req[r].entry = "match_products" /\ req[r].pc = "done"
         /\ req[r].response.status = 200) =>
            \A i \in 1..Len(req[r].products) : \A j \in 1..Len(req[r].products) :
                (i < j) => req[r].products[i].similarity_score
                               >= req[r].products[j].similarity_score
\* C13: every product record in a successful /api/match-products response has a
\* non-null identifier and a non-null name (every other descriptive field may be
\* null).
C13_IdAndNameNotNull ==
    \A r \in Reqs :
        (req[r].entry = "match_products" /\ req[r].pc = "done"
         /\ req[r].response.status = 200) =>
            \A i \in 1..Len(req[r].products) :
                /\ req[r].products[i].id # None
                /\ req[r].products[i].name # None
\* C15: generate_style_suggestions returns between 4 and 6 suggestions on every
\* path: model success, repaired or partially extracted JSON, and fallback.
C15_FourToSixSuggestions ==
    \A r \in Reqs :
        SuggestMethodDone(req[r]) =>
            /\ req[r].suggestions.n >= FallbackSuggestionCount
            /\ req[r].suggestions.n <= MaxSuggestions
\* C16: generate_prompt_variations always returns exactly 3 variations: the model's
\* list when it has exactly 3 entries, otherwise (any other length, an answer that
\* does not parse or holds no list, or an exception) the 3 fixed fallback variations.
C16_ThreeVariations ==
    \A r \in Reqs :
        (req[r].entry = "generate_prompt_variations" /\ req[r].pc = "done") =>
            /\ req[r].result = "returned"
            /\ req[r].variations.n = VariationCount
            /\ req[r].variations.kind \in {"model", "fallback"}
            /\ (req[r].variations.kind = "model")
                   <=> (HasEvent(req[r], "nlu", "list")
                        /\ req[r].variations.listed = VariationCount)

\* The model listed four variations and the three fallback variations were returned
C16_Witness ==
    \E r \in Reqs :
        /\ req[r].entry = "generate_prompt_variations"
        /\ req[r].pc = "done"
        /\ HasEvent(req[r], "nlu", "list")
        /\ req[r].variations.listed = VariationCount + 1
        /\ req[r].variations.kind = "fallback"
        /\ req[r].variations.n = VariationCount
Count(rq, call, event) ==
    Cardinality({i \in 1..Len(rq.log) : rq.log[i] = <<call, event>>})
\* The main path of search_products_multi_category ran to its end: garments were
\* detected, the one embedding call answered a vector and one query per garment
\* answered rows
MainPathSucceeded(rq) ==
    /\ rq.garments # <<>>
    /\ HasEvent(rq, "nlu", "list")
    /\ Starts(rq, "embedding") = 1
    /\ HasEvent(rq, "embedding", "vector")
    /\ Count(rq, "warehouse", "start") = Len(rq.garments)
    /\ Count(rq, "warehouse", "rows") = Len(rq.garments)
    /\ \A i \in 1..Len(rq.log) : rq.log[i][2] # "raise"
\* What the single-embedding search hands back: nothing, or one product per row of
\* its own query, without a category label
FromSingleSearch(rq) ==
    \/ rq.products = <<>>
    \/ /\ rq.sql.kind \in {"VECTOR_SEARCH", "MANUAL"}
       /\ rq.sql.limit = 2 * DefaultLimitPerCategory
       /\ Len(rq.products) = Len(rq.rows)
       /\ \A i \in 1..Len(rq.rows) : rq.products[i] = FormatImageRow(rq.rows[i])

\* C17: search_products_multi_category returns search_mode "multi_category" only
\* when at least one garment was detected and the embedding call and every
\* per-category query succeeded; in every other case (no garments detected, or any
\* exception) it returns search_mode "single" with an empty products_by_category and
\* all_products taken from one single-embedding search with limit
\* 2 * limit_per_category, and nothing of the per-category results gathered before
\* the failure.
C17_MultiCategoryOrSingle ==
    \A r \in Reqs :
        (req[r].entry = "search_products_multi_category" /\ req[r].pc = "done") =>
            /\ req[r].result = "returned"
            /\ req[r].search_mode \in {"multi_category", "single"}
            /\ (req[r].search_mode = "multi_category") =>
                  (MainPathSucceeded(req[r]) /\ ~req[r].fallback)
            /\ (~MainPathSucceeded(req[r])) => req[r].search_mode = "single"
            /\ (req[r].search_mode = "single") =>
                  /\ req[r].fallback
                  /\ req[r].by_category = <<>>
                  /\ req[r].limit = 2 * DefaultLimitPerCategory
                  /\ FromSingleSearch(req[r])

\* The first category's query answered rows, the second one raised, and the search
\* returned "single" with the products of the single-embedding search only
C17_Witness ==
    \E r \in Reqs :
        /\ req[r].entry = "search_products_multi_category"
        /\ req[r].pc = "done"
        /\ req[r].search_mode = "single"
        /\ Len(req[r].garments) = 2
        /\ \E i \in 1..Len(req[r].log) : \E j \in 1..Len(req[r].log) :
              /\ i < j
              /\ req[r].log[i] = <<"warehouse", "rows">>
              /\ req[r].log[j] = <<"warehouse", "raise">>
        /\ req[r].products # <<>>
        /\ req[r].by_category = <<>>

\* C18: generate_specifications(total_count) returns exactly total_count
\* specifications, whatever total_count is and whichever of the model and the
\* templates each category used
C18_ReturnsTotalCount ==
    gen.stage = "returned" => gen.all_specs = gen.total_count

\* The indexes from resume_from to the end of a list of the given length
IndexesFrom(total, resume_from) ==
    [k \in 1..Max(0, total - resume_from) |-> resume_from + k - 1]
LoggedIndexes == [k \in 1..Len(catalog.log) |-> catalog.log[k].index]
LoggedAs(status) == Cardinality({k \in 1..Len(catalog.log) : catalog.log[k].status = status})
LoopEnded == catalog.stage \in {"report", "done", "raised"}

\* C19: create_catalog processes every specification from index resume_from to
\* the end exactly once and in order, a failure never stopping the later
\* products, and when the loop ends success_count + failure_count =
\* len(product_specs) - resume_from with one log entry, success or failure, per
\* processed index
C19_EveryIndexOnce ==
    /\ catalog.success_count = LoggedAs("success")
    /\ catalog.failure_count = LoggedAs("failure")
    /\ LoopEnded =>
          /\ LoggedIndexes = IndexesFrom(catalog.total, catalog.resume_from)
          /\ catalog.success_count + catalog.failure_count
                = catalog.total - catalog.resume_from

InTrace(i, ev) == \E p \in 1..Len(catalog.trace) : catalog.trace[p] = <<i, ev>>
C14_TableReadOnlyNotCached ==
    [][/\ (req' # req) => (table' = table)
       /\ \A r \in Reqs :
             /\ (req[r].pc = "idle" /\ req'[r].pc # "idle") =>
                   (req'[r].rows = <<>> /\ req'[r].products = <<>>)
             /\ (req[r].pc = "execute" /\ req'[r].pc = "format") =>
                   /\ Len(req'[r].rows) <= Len(table)
                   /\ \A k \in 1..Len(req'[r].rows) :
                         req'[r].rows[k].product_id = table[k].product_id]_vars
\* A later request, after the pipeline has added a product to an empty table,
\* gets the new row
C14_Witness ==
    /\ req[1].served >= 1
    /\ req[1].pc = "format"
    /\ Len(catalog.inserted) = 1
    /\ Len(table) = 1
    /\ Len(req[1].rows) = 1
    /\ req[1].rows[1].product_id = table[1].product_id

\* C21: with either setting of use_vector_index, every product that
\* search_products_by_image returns has its similarity_score computed from the
\* value the warehouse computed for its row: the row carries the distance column
\* the formatter reads, so the default distance is never what the score comes from
C21_ScoreFromWarehouseValue ==
    \A r \in Reqs :
        (ImageProductsBuilt(req[r])
            /\ req[r].entry \in {"search_products_by_image", "match_products"}) =>
            \A i \in 1..Len(req[r].rows) :
                /\ "distance" \in DOMAIN req[r].rows[i]
                /\ req[r].products[i].similarity_score
                      = SimilarityFromDistance(req[r].rows[i].distance[1])

\* C22: whenever the match description of /api/match-products says the products
\* are within the budget price_max, every returned product has a price not above
\* price_max, with either setting of use_vector_index
C22_WithinBudget ==
    \A r \in Reqs :
        (req[r].entry = "match_products" /\ req[r].pc = "done"
         /\ req[r].response.status = 200
         /\ \E k \in 1..Len(req[r].response.match_description) :
               req[r].response.match_description[k] = "within_budget") =>
            \A i \in 1..Len(req[r].products) :
                req[r].products[i].price <= req[r].parsed.price_max[1]

\* C23: search_products_by_image never issues a warehouse query without a valid
\* query embedding: a query is issued only after the embedding model returned a
\* usable vector, and when the image file is missing, the embedding call raises
\* or the model returns no embedding or a zero vector, no query is issued and the
\* operation returns an empty list
C23_NoQueryWithoutEmbedding ==
    \A r \in Reqs :
        (req[r].entry \in {"search_products_by_image", "match_products"}) =>
            /\ \A j \in 1..Len(req[r].log) :
                  (req[r].log[j] = <<"warehouse", "start">>) =>
                      \E i \in 1..(j - 1) : req[r].log[i] = <<"embedding", "vector">>
            /\ ("embed" \in req[r].caught) =>
                  /\ Starts(req[r], "warehouse") = 0
                  /\ req[r].products = <<>>
                  /\ req[r].rows = <<>>
                  /\ ~req[r].search_raised
            /\ (\/ HasEvent(req[r], "embedding", "zero")
                \/ HasEvent(req[r], "embedding", "empty")
                \/ HasEvent(req[r], "embedding", "raise")
                \/ (req[r].image_path # "local" /\ req[r].pc \in {"describe", "done"}))
                  => "embed" \in req[r].caught
\* search_products_by_image has returned the empty list after the model answered
\* a zero vector, without a query
C23_Witness ==
    \E r \in Reqs :
        /\ req[r].entry = "search_products_by_image"
        /\ req[r].pc = "done"
        /\ req[r].result = "returned"
        /\ HasEvent(req[r], "embedding", "zero")
        /\ Starts(req[r], "warehouse") = 0
        /\ req[r].products = <<>>

\* C24: POST /api/search answers with a success response, not HTTP 500, whenever
\* the NLU model call, the image model call, or both raise: the handler never
\* reaches its except clause, and the response carries the fallback attributes
\* when the NLU call raised and the placeholder image when the image call raised
C24_SearchSurvivesModelFailures ==
    \A r \in Reqs :
        (req[r].entry = "search"
         /\ (CallRaised(req[r], "nlu") \/ CallRaised(req[r], "image_model"))) =>
            /\ req[r].pc # "except"
            /\ req[r].exc = "none"
            /\ req[r].response.status \in {0, 200}
            /\ CallRaised(req[r], "nlu") => req[r].parsed = FallbackAttrs
            /\ (req[r].pc = "done") =>
                  /\ req[r].response.status = 200
                  /\ CallRaised(req[r], "image_model") =>
                        req[r].response.image_url = Placeholder
                  /\ HasEvent(req[r], "image_model", "image") =>
                        req[r].response.image_url # Placeholder
\* Both model calls of one /api/search request raised and the answer is a 200
\* with the fallback attributes and the placeholder
C24_Witness ==
    \E r \in Reqs :
        /\ req[r].entry = "search"
        /\ req[r].pc = "done"
        /\ CallRaised(req[r], "nlu")
        /\ CallRaised(req[r], "image_model")
        /\ req[r].response.status = 200
        /\ req[r].parsed = FallbackAttrs
        /\ req[r].response.image_url = Placeholder

\* The number of products held under the given categories of products_by_category
RECURSIVE CountUnder(_, _)
CountUnder(by_category, cats) ==
    IF cats = {} THEN 0
    ELSE LET c == CHOOSE x \in cats : TRUE
         IN  Len(by_category[c]) + CountUnder(by_category, cats \ {c})
\* C25: in a "multi_category" result, all_products is exactly the flat
\* concatenation of the lists in products_by_category: every product of
\* all_products stands under its matched_category and the two hold the same
\* number of products, for every list of detected garments, one that names the
\* same category twice included
C25_AllProductsIsConcatenation ==
    \A r \in Reqs :
        (req[r].entry = "search_products_multi_category" /\ req[r].pc = "done"
         /\ req[r].search_mode = "multi_category") =>
            /\ Len(req[r].products)
                  = CountUnder(req[r].by_category, DOMAIN req[r].by_category)
            /\ \A i \in 1..Len(req[r].products) :
                  LET p == req[r].products[i]
                  IN  /\ p.matched_category \in DOMAIN req[r].by_category
                      /\ \E k \in 1..Len(req[r].by_category[p.matched_category]) :
                            req[r].by_category[p.matched_category][k] = p

====
